---- MODULE Spec2Model ----
(***************************************************************************)
(* State-machine model of AIModeProxy.                                     *)
(*                                                                         *)
(*   src/research_agent.py            the agentic orchestrator (class      *)
(*                                    ResearchAgent), the Tool Gateway     *)
(*                                    (search_google) and its main()       *)
(*   src/google_ai_cli/google_ai_cli.py   the delegated CLI process        *)
(*   src/google_ai_cli/ai_controller.py   GoogleAIController               *)
(*                                                                         *)
(* Text is a sequence of tokens (strings); a literal of the source is one  *)
(* token, " " and "\n" are whitespace tokens.  Python's None is the        *)
(* one-token text None, which no real text contains.                       *)
(***************************************************************************)
EXTENDS Integers, Sequences, FiniteSets, TLC

(***************************************************************************)
(* Bounds of the model.                                                    *)
(***************************************************************************)
MaxIterations == 2      \* run(topic, max_iterations) with max_iterations in 0..MaxIterations
MaxToolCalls  == 2      \* tool-call records carried by one model reply
MaxRuns       == 2      \* calls of run() on one ResearchAgent instance
MaxGateway    == 2      \* tool-call records emitted by the model over the agent's lifetime

(***************************************************************************)
(* Text helpers.                                                           *)
(***************************************************************************)
None == <<"<None>">>

Whitespace == {" ", "\n"}

RECURSIVE LStrip(_)
LStrip(s) == IF s # <<>> /\ Head(s) \in Whitespace THEN LStrip(Tail(s)) ELSE s

RECURSIVE RStrip(_)
RStrip(s) ==
    IF s # <<>> /\ s[Len(s)] \in Whitespace THEN RStrip(SubSeq(s, 1, Len(s) - 1)) ELSE s

\* str.strip()
Strip(s) == RStrip(LStrip(s))

\* `tok in text` for a one-token needle
Contains(tok, text) == \E k \in 1..Len(text) : text[k] = tok

\* `needle in text` for texts
IsSubText(needle, text) ==
    \E k \in 0..(Len(text) - Len(needle)) : SubSeq(text, k + 1, k + Len(needle)) = needle


(***************************************************************************)
(* Constants of src/research_agent.py.                                     *)
(***************************************************************************)
GOOGLE_AI_CLI_PATH == "google_ai_cli/google_ai_cli.py"

SENTINEL == "RESEARCH_COMPLETE"

NO_RESEARCH == <<"No research was conducted. Could not generate a report.">>

system_prompt == <<"You are an expert research assistant. ...">>

report_prompt == <<"You are a report writing expert. ...">>

\* self.tool_map
tool_map == {"search_google"}

(***************************************************************************)
(* The environment: topics, the delegated process, the model's replies.    *)
(***************************************************************************)
Topics == {<<"topicA">>}

\* How one launch of the delegated process can end, as subprocess.run sees it.
ProcessOutcomes ==
    { [kind |-> "exit0",     returncode |-> "0", stdout |-> <<" ", "answer", "\n">>, stderr |-> <<>>],
      [kind |-> "not_found", returncode |-> "",  stdout |-> <<>>, stderr |-> <<>>],
      [kind |-> "nonzero",   returncode |-> "1", stdout |-> <<>>, stderr |-> <<"ERROR - Operation timed out.", "\n">>],
      [kind |-> "timeout",   returncode |-> "",  stdout |-> <<"partial">>, stderr |-> <<>>] }

FailureKinds == {"not_found", "nonzero", "timeout"}

FunctionNames == {"search_google", "open_browser"}

\* Raw argument payloads the model may put in a tool-call record.
Payloads == { "{\"query\": \"q1\"}", "{}", "[1]", "{query: " }

\* What the model may ask for in one tool-call record: the registered tool with
\* every payload, and a tool that is not registered.
Calls ==
    [name : {"search_google"}, arguments : Payloads]
        \cup {[name |-> "open_browser", arguments |-> "{\"query\": \"q1\"}"]}

\* The identifier the model gives the j-th tool-call record of a reply.
IdAt(j) == <<"call", j>>

\* Sequences of at most n elements of S
RECURSIVE SeqUpTo(_, _)
SeqUpTo(S, n) ==
    IF n = 0 THEN {<<>>}
    ELSE LET shorter == SeqUpTo(S, n - 1)
         IN  shorter \cup {Append(q, x) : q \in {t \in shorter : Len(t) = n - 1}, x \in S}

\* The tool-call records of a reply asking for the calls of q, in order.
ToolCallRecords(q) ==
    [j \in 1..Len(q) |-> [id |-> IdAt(j), name |-> q[j].name, arguments |-> q[j].arguments]]

ReplyContents == {None, <<"All done:", SENTINEL>>, <<"I am not sure.">>}

\* response.choices[0].message with at most n tool-call records
Replies(n) ==
    {[content |-> c, tool_calls |-> ToolCallRecords(q)] : c \in ReplyContents, q \in SeqUpTo(Calls, n)}

SynthesisTexts == {<<"TL;DR", "\n", "Detailed Findings">>, <<" ", "report", " ">>}

APIErrors == {"APIConnectionError", "APIStatusError"}

(***************************************************************************)
(* json.loads on the payloads above, and dict.get("query") on its result.  *)
(***************************************************************************)
JsonLoads(payload) ==
    CASE payload = "{\"query\": \"q1\"}" -> [kind |-> "object",  has_query |-> TRUE,  query |-> <<"q1">>]
      [] payload = "{}"                  -> [kind |-> "object",  has_query |-> FALSE, query |-> None]
      [] payload = "[1]"                 -> [kind |-> "array",   has_query |-> FALSE, query |-> None]
      [] OTHER                           -> [kind |-> "invalid", has_query |-> FALSE, query |-> None]

\* args.get("query")
GetQuery(args) == IF args.has_query THEN args.query ELSE None

(***************************************************************************)
(* json.dumps(self.research_data, indent=2): the entries in order, each    *)
(* with its query and its result verbatim.                                 *)
(***************************************************************************)
RECURSIVE JsonDumpsEntries(_)
JsonDumpsEntries(entries) ==
    IF entries = <<>> THEN <<>>
    ELSE <<"{", "\"query\": ">> \o Head(entries).query \o <<",", "\"result\": ">>
         \o Head(entries).result \o <<"}">> \o JsonDumpsEntries(Tail(entries))

JsonDumps(entries) == <<"[">> \o JsonDumpsEntries(entries) \o <<"]">>

\* search_google with the stderr left out of the non-zero-exit diagnostic
search_google_no_stderr(query, outcome) ==
    IF query = None
    THEN [raised |-> TRUE, exc |-> "TypeError", value |-> None]
    ELSE CASE outcome.kind = "exit0" ->
                [raised |-> FALSE, exc |-> "", value |-> Strip(outcome.stdout)]
           [] outcome.kind = "not_found" ->
                [raised |-> FALSE, exc |-> "",
                 value |-> <<"Error: The script '", GOOGLE_AI_CLI_PATH, "' was not found.">>]
           [] outcome.kind = "nonzero" ->
                [raised |-> FALSE, exc |-> "",
                 value |-> <<"Error: The search script failed with exit code ",
                             outcome.returncode, ".">>]
           [] outcome.kind = "timeout" ->
                [raised |-> FALSE, exc |-> "",
                 value |-> <<"Error: The search script timed out after 180 seconds.">>]

\* search_google without the `except subprocess.TimeoutExpired` clause
search_google_timeout_raises(query, outcome) ==
    IF query = None
    THEN [raised |-> TRUE, exc |-> "TypeError", value |-> None]
    ELSE CASE outcome.kind = "exit0" ->
                [raised |-> FALSE, exc |-> "", value |-> Strip(outcome.stdout)]
           [] outcome.kind = "not_found" ->
                [raised |-> FALSE, exc |-> "",
                 value |-> <<"Error: The script '", GOOGLE_AI_CLI_PATH, "' was not found.">>]
           [] outcome.kind = "nonzero" ->
                [raised |-> FALSE, exc |-> "",
                 value |-> <<"Error: The search script failed with exit code ",
                             outcome.returncode, ".", "\n", "Stderr: ">> \o Strip(outcome.stderr)]
           [] outcome.kind = "timeout" ->
                [raised |-> TRUE, exc |-> "TimeoutExpired", value |-> None]

(***************************************************************************)
(* Tool Gateway: search_google(query) when the delegated process ends as   *)
(* `outcome`.  A query that is not a string makes subprocess.run raise     *)
(* TypeError before any process is launched.                               *)
(***************************************************************************)
search_google(query, outcome) ==
    IF query = None
    THEN [raised |-> TRUE, exc |-> "TypeError", value |-> None]
    ELSE CASE outcome.kind = "exit0" ->
                [raised |-> FALSE, exc |-> "", value |-> Strip(outcome.stdout)]
           [] outcome.kind = "not_found" ->
                [raised |-> FALSE, exc |-> "",
                 value |-> <<"Error: The script '", GOOGLE_AI_CLI_PATH, "' was not found.">>]
           [] outcome.kind = "nonzero" ->
                [raised |-> FALSE, exc |-> "",
                 value |-> <<"Error: The search script failed with exit code ",
                             outcome.returncode, ".", "\n", "Stderr: ">> \o Strip(outcome.stderr)]
           [] outcome.kind = "timeout" ->
                [raised |-> FALSE, exc |-> "",
                 value |-> <<"Error: The search script timed out after 180 seconds.">>]

(***************************************************************************)
(* Turns of the conversation history.                                      *)
(***************************************************************************)
Turn(role, content, tool_calls, tool_call_id, name) ==
    [role |-> role, content |-> content, tool_calls |-> tool_calls,
     tool_call_id |-> tool_call_id, name |-> name]

MessageTurn(role, content) == Turn(role, content, <<>>, <<>>, "")

\* ai_response.model_dump()
AssistantTurn(reply) == Turn("assistant", reply.content, reply.tool_calls, <<>>, "")

\* a tool-result turn that carries the identifier of the reply's first record
ToolTurn_first_id(tool_call, content) == Turn("tool", content, <<>>, IdAt(1), tool_call.name)

ToolTurn(tool_call, content) == Turn("tool", content, <<>>, tool_call.id, tool_call.name)

\* self.conversation_history at the top of run()
InitialHistory(topic) ==
    << MessageTurn("system", system_prompt),
       MessageTurn("user", <<"Please research the following topic: ">> \o topic) >>

\* the synthesis request built from the last entry only
ReportMessages_last_only(entries) ==
    << MessageTurn("system", report_prompt),
       MessageTurn("user", JsonDumps(SubSeq(entries, Len(entries), Len(entries)))) >>

\* the messages of the synthesis request
ReportMessages(entries) ==
    << MessageTurn("system", report_prompt), MessageTurn("user", JsonDumps(entries)) >>


(***************************************************************************)
(* State.                                                                  *)
(***************************************************************************)
VARIABLES
    conversation_history,   \* self.conversation_history
    research_data,          \* self.research_data
    pc,                     \* where the orchestrator's process is
    max_iterations,         \* the argument of the current run()
    i,                      \* the loop variable of run()
    pending,                \* tool calls of the current reply not yet executed
    report,                 \* the value run() returned (None before it returns)
    exc,                    \* the exception propagating out of run() ("" if none)
    exit_status,            \* the orchestrator process: "running", "0" or "1"
    status,                 \* which [STATUS] line ended the loop of run()
    runs,                   \* calls of run() made on this instance
    emitted,                \* tool-call records the model has emitted so far
    tool_requests,          \* tool-enabled model requests issued by this run
    synth_requests,         \* tool-free model requests issued by this run
    gateway_calls,          \* search_google invocations made by this run
    gateway_call,           \* the last search_google invocation
    last_request,           \* the last request passed to chat.completions.create
    last_reply              \* the text of the reply to it (None: no reply)

agent_vars ==
    << conversation_history, research_data, pc, max_iterations, i, pending, report, exc,
       exit_status, status, runs, emitted, tool_requests, synth_requests, gateway_calls,
       gateway_call, last_request, last_reply >>

NoGatewayCall ==
    [query |-> None, kind |-> "", stdout |-> <<>>, stderr |-> <<>>, raised |-> FALSE,
     value |-> None]

NoRequest == [messages |-> <<>>, use_tools |-> FALSE]

\* ResearchAgent.__init__, before main() calls run()
AgentInit ==
    /\ conversation_history = <<>>
    /\ research_data = <<>>
    /\ pc = "idle"
    /\ max_iterations = 0
    /\ i = 0
    /\ pending = <<>>
    /\ report = None
    /\ exc = ""
    /\ exit_status = "running"
    /\ status = ""
    /\ runs = 0
    /\ emitted = 0
    /\ tool_requests = 0
    /\ synth_requests = 0
    /\ gateway_calls = 0
    /\ gateway_call = NoGatewayCall
    /\ last_request = NoRequest
    /\ last_reply = None

\* the loop written as range(max_iterations + 1)
LoopNext_one_more(k, max) == IF k <= max THEN "call_ai" ELSE "report"

(***************************************************************************)
(* `for i in range(max_iterations)`: where control goes when iteration k   *)
(* is the next one; past the last iteration it falls through to the        *)
(* report generation of line 181.                                          *)
(***************************************************************************)
LoopNext(k, max) == IF k < max THEN "call_ai" ELSE "report"

\* run(), lines 140-157: the history is seeded, the loop is entered.  main()
\* calls it once; a caller that keeps the instance may call it again after it
\* returned.
run ==
    /\ pc \in {"idle", "returned"}
    /\ runs < MaxRuns
    /\ \E topic \in Topics, max \in 0..MaxIterations :
          /\ conversation_history' = InitialHistory(topic)
          /\ max_iterations' = max
          /\ pc' = LoopNext(0, max)
          /\ status' = IF max = 0 THEN "max_iterations" ELSE ""
    /\ i' = 0
    /\ pending' = <<>>
    /\ report' = None
    /\ exc' = ""
    /\ runs' = runs + 1
    /\ tool_requests' = 0
    /\ synth_requests' = 0
    /\ gateway_calls' = 0
    /\ gateway_call' = NoGatewayCall
    /\ last_request' = NoRequest
    /\ last_reply' = None
    /\ UNCHANGED << research_data, exit_status, emitted >>

(***************************************************************************)
(* One pass of the loop body up to the dispatch on the reply, lines        *)
(* 163-177: the request, the append of the reply, the three branches.      *)
(***************************************************************************)
\* the sentinel looked for before the tool calls
ReplyBranch_sentinel_first(reply) ==
    IF Contains(SENTINEL, IF reply.content = None THEN <<>> ELSE reply.content)
    THEN "complete"
    ELSE IF reply.tool_calls # <<>> THEN "tools" ELSE "no_tool"

\* which branch of lines 166-177 a reply takes
ReplyBranch(reply) ==
    IF reply.tool_calls # <<>> THEN "tools"
    ELSE IF Contains(SENTINEL, IF reply.content = None THEN <<>> ELSE reply.content)
         THEN "complete"
         ELSE "no_tool"

\* _call_ai raising: the error leaves run(), nothing is appended
call_ai_raises ==
    /\ pc = "call_ai"
    /\ \E e \in APIErrors : exc' = e
    /\ pc' = "raised"
    /\ tool_requests' = tool_requests + 1
    /\ last_request' = [messages |-> conversation_history, use_tools |-> TRUE]
    /\ last_reply' = None
    /\ UNCHANGED << conversation_history, research_data, max_iterations, i, pending, report,
                    exit_status, status, runs, emitted, synth_requests, gateway_calls,
                    gateway_call >>

run_iteration ==
    /\ pc = "call_ai"
    /\ \E reply \in Replies(IF MaxGateway - emitted < MaxToolCalls
                            THEN MaxGateway - emitted ELSE MaxToolCalls) :
          /\ conversation_history' = Append(conversation_history, AssistantTurn(reply))
          /\ emitted' = emitted + Len(reply.tool_calls)
          /\ pending' = reply.tool_calls
          /\ pc' = IF ReplyBranch(reply) = "tools" THEN "tools" ELSE "report"
          /\ status' = IF ReplyBranch(reply) = "tools" THEN "" ELSE ReplyBranch(reply)
          /\ last_reply' = reply.content
    /\ tool_requests' = tool_requests + 1
    /\ last_request' = [messages |-> conversation_history, use_tools |-> TRUE]
    /\ UNCHANGED << research_data, max_iterations, i, report, exc, exit_status, runs,
                    synth_requests, gateway_calls, gateway_call >>


\* _execute_tool_call without its `except json.JSONDecodeError` clause
ExecuteToolCall_no_except(tool_call, outcome) ==
    LET args == JsonLoads(tool_call.arguments)
        none == [exc |-> "", turns |-> <<>>, entries |-> <<>>, gateway |-> <<>>]
    IN  IF args.kind = "invalid"
        THEN [none EXCEPT !.exc = "JSONDecodeError"]
        ELSE IF args.kind # "object"
        THEN [none EXCEPT !.exc = "AttributeError"]
        ELSE LET query == GetQuery(args)
                 result == search_google(query, outcome)
                 call == [query |-> query,
                          kind |-> IF query = None THEN "" ELSE outcome.kind,
                          stdout |-> IF query = None THEN <<>> ELSE outcome.stdout,
                          stderr |-> IF query = None THEN <<>> ELSE outcome.stderr,
                          raised |-> result.raised, value |-> result.value]
             IN  IF tool_call.name \in tool_map
                 THEN IF result.raised
                      THEN [none EXCEPT !.exc = result.exc, !.gateway = <<call>>]
                      ELSE [none EXCEPT
                              !.turns = <<ToolTurn(tool_call, result.value)>>,
                              !.entries = <<[query |-> query, result |-> result.value]>>,
                              !.gateway = <<call>>]
                 ELSE [none EXCEPT
                         !.turns = <<ToolTurn(tool_call,
                                       <<"Error: Unknown tool '", tool_call.name, "'.">>)>>]

(***************************************************************************)
(* _execute_tool_call(tool_call), lines 183-208, when the delegated        *)
(* process (if one is launched) ends as `outcome`: the exception that      *)
(* escapes (only JSONDecodeError is caught), the turns appended to the     *)
(* history, the entries appended to research_data and the gateway          *)
(* invocation made.                                                        *)
(***************************************************************************)
ExecuteToolCall(tool_call, outcome) ==
    LET args == JsonLoads(tool_call.arguments)
        none == [exc |-> "", turns |-> <<>>, entries |-> <<>>, gateway |-> <<>>]
    IN  IF args.kind = "invalid"
        THEN [none EXCEPT !.turns = <<ToolTurn(tool_call, <<"Error: Invalid arguments format.">>)>>]
        ELSE IF args.kind # "object"
        THEN [none EXCEPT !.exc = "AttributeError"]
        ELSE LET query == GetQuery(args)
                 result == search_google(query, outcome)
                 call == [query |-> query,
                          kind |-> IF query = None THEN "" ELSE outcome.kind,
                          stdout |-> IF query = None THEN <<>> ELSE outcome.stdout,
                          stderr |-> IF query = None THEN <<>> ELSE outcome.stderr,
                          raised |-> result.raised, value |-> result.value]
             IN  IF tool_call.name \in tool_map
                 THEN IF result.raised
                      THEN [none EXCEPT !.exc = result.exc, !.gateway = <<call>>]
                      ELSE [none EXCEPT
                              !.turns = <<ToolTurn(tool_call, result.value)>>,
                              !.entries = <<[query |-> query, result |-> result.value]>>,
                              !.gateway = <<call>>]
                 ELSE [none EXCEPT
                         !.turns = <<ToolTurn(tool_call,
                                       <<"Error: Unknown tool '", tool_call.name, "'.">>)>>]

\* line 169: the next tool call of the reply is executed; after the last one
\* the loop moves to its next iteration.
_execute_tool_call ==
    /\ pc = "tools"
    /\ pending # <<>>
    /\ \E outcome \in ProcessOutcomes :
          LET effect == ExecuteToolCall(Head(pending), outcome)
          IN  /\ conversation_history' = conversation_history \o effect.turns
              /\ research_data' = research_data \o effect.entries
              /\ gateway_calls' = gateway_calls + Len(effect.gateway)
              /\ gateway_call' = IF effect.gateway = <<>> THEN gateway_call
                                 ELSE effect.gateway[1]
              /\ exc' = effect.exc
              /\ IF effect.exc # ""
                 THEN /\ pc' = "raised"
                      /\ UNCHANGED << pending, i, status >>
                 ELSE /\ pending' = Tail(pending)
                      /\ IF Tail(pending) = <<>>
                         THEN /\ i' = i + 1
                              /\ pc' = LoopNext(i + 1, max_iterations)
                              /\ status' = IF LoopNext(i + 1, max_iterations) = "report"
                                           THEN "max_iterations" ELSE ""
                         ELSE UNCHANGED << i, pc, status >>
    /\ UNCHANGED << max_iterations, report, exit_status, runs, emitted, tool_requests,
                    synth_requests, last_request, last_reply >>

\* _generate_final_report returning final_report_message.content.strip()
_generate_final_report_stripped ==
    /\ pc = "report"
    /\ IF research_data = <<>>
       THEN /\ report' = NO_RESEARCH
            /\ pc' = "returned"
            /\ UNCHANGED << exc, synth_requests, last_request, last_reply >>
       ELSE /\ synth_requests' = synth_requests + 1
            /\ last_request' = [messages |-> ReportMessages(research_data), use_tools |-> FALSE]
            /\ \/ \E text \in SynthesisTexts :
                     /\ report' = Strip(text)
                     /\ last_reply' = text
                     /\ pc' = "returned"
                     /\ UNCHANGED exc
               \/ \E e \in APIErrors :
                     /\ exc' = e
                     /\ last_reply' = None
                     /\ pc' = "raised"
                     /\ UNCHANGED report
    /\ UNCHANGED << conversation_history, research_data, max_iterations, i, pending,
                    exit_status, status, runs, emitted, tool_requests, gateway_calls,
                    gateway_call >>

(***************************************************************************)
(* _generate_final_report(), lines 210-239.                                *)
(***************************************************************************)
_generate_final_report ==
    /\ pc = "report"
    /\ IF research_data = <<>>
       THEN /\ report' = NO_RESEARCH
            /\ pc' = "returned"
            /\ UNCHANGED << exc, synth_requests, last_request, last_reply >>
       ELSE /\ synth_requests' = synth_requests + 1
            /\ last_request' = [messages |-> ReportMessages(research_data), use_tools |-> FALSE]
            /\ \/ \E text \in SynthesisTexts :
                     /\ report' = text
                     /\ last_reply' = text
                     /\ pc' = "returned"
                     /\ UNCHANGED exc
               \/ \E e \in APIErrors :
                     /\ exc' = e
                     /\ last_reply' = None
                     /\ pc' = "raised"
                     /\ UNCHANGED report
    /\ UNCHANGED << conversation_history, research_data, max_iterations, i, pending,
                    exit_status, status, runs, emitted, tool_requests, gateway_calls,
                    gateway_call >>

\* main() without the sys.exit(1) of its exception handler
main_exit_zero ==
    /\ pc \in {"returned", "raised"}
    /\ exit_status' = "0"
    /\ pc' = "exited"
    /\ UNCHANGED << conversation_history, research_data, max_iterations, i, pending, report,
                    exc, status, runs, emitted, tool_requests, synth_requests, gateway_calls,
                    gateway_call, last_request, last_reply >>

(***************************************************************************)
(* main(), lines 266-283: the report is printed and the process ends, or   *)
(* the exception is caught and the process exits with status 1.            *)
(***************************************************************************)
main ==
    /\ pc \in {"returned", "raised"}
    /\ exit_status' = IF pc = "raised" THEN "1" ELSE "0"
    /\ pc' = "exited"
    /\ UNCHANGED << conversation_history, research_data, max_iterations, i, pending, report,
                    exc, status, runs, emitted, tool_requests, synth_requests, gateway_calls,
                    gateway_call, last_request, last_reply >>

(***************************************************************************)
(* The delegated CLI process, src/google_ai_cli/google_ai_cli.py.          *)
(***************************************************************************)
VARIABLES
    cli_pc,         \* where main() of the CLI is
    cli_args,       \* the parsed command line
    cli_exit,       \* the CLI process: "running", "0", "1" or "2"
    cli_stdout,     \* what the CLI has printed (None: nothing)
    cli_region,     \* the awaited selector became visible
    cli_cookie,     \* handle_initial_popups clicked "Accept all"
    cli_calls,      \* the GoogleAIController methods main() has called
    cli_saved       \* save_conversation was called

cli_vars ==
    << cli_pc, cli_args, cli_exit, cli_stdout, cli_region, cli_cookie, cli_calls, cli_saved >>

NoArgs == [command |-> "", text |-> <<>>, headful |-> FALSE, save |-> FALSE]

CliInit ==
    /\ cli_pc = "start"
    /\ cli_args = NoArgs
    /\ cli_exit = "running"
    /\ cli_stdout = None
    /\ cli_region = FALSE
    /\ cli_cookie = FALSE
    /\ cli_calls = <<>>
    /\ cli_saved = FALSE

\* Command lines argparse accepts: choices of `command`, optional `text`.
CommandLines ==
    [command : {"prompt", "new"}, text : {<<>>, <<"what is tla+">>},
     headful : BOOLEAN, save : BOOLEAN]

\* The methods class GoogleAIController defines (ai_controller.py).
ControllerMethods ==
    { "_response_handler", "wait_for_response_completion", "wait_for_dom_stabilization",
      "_parse_element_to_markdown", "extract_response_as_markdown", "new_chat" }

\* The method main() calls at line 100 to wait for the response.
WaitMethod == "wait_for_response_stabilization"

\* What extract_response_as_markdown can return to main().
ExtractedTexts == {<<"### Title", "\n", "answer">>, <<"Error: Could not extract response.">>}

\* What new_chat can return to main().
NewChatMessages ==
    {<<"New chat started successfully.">>, <<"Error: Timed out trying to start a new chat.">>}

\* A step of the CLI that ends the process with exit status `code`.
CliExit(code) ==
    /\ cli_pc' = "exited"
    /\ cli_exit' = code

\* lines 64-73: the command line is parsed; `prompt` without text is a usage error.
cli_parse_args ==
    /\ cli_pc = "start"
    /\ \E args \in CommandLines :
          /\ cli_args' = args
          /\ IF args.command = "prompt" /\ args.text = <<>>
             THEN CliExit("2")
             ELSE cli_pc' = "launch" /\ UNCHANGED cli_exit
    /\ UNCHANGED << cli_stdout, cli_region, cli_cookie, cli_calls, cli_saved >>

\* lines 76-83: the browser, the page and the controller are created.
cli_launch ==
    /\ cli_pc = "launch"
    /\ \/ cli_pc' = "goto" /\ UNCHANGED cli_exit
       \/ CliExit("1")
    /\ UNCHANGED << cli_args, cli_stdout, cli_region, cli_cookie, cli_calls, cli_saved >>

\* lines 86-91 and 108-112: navigation, then handle_initial_popups.
cli_goto ==
    /\ cli_pc = "goto"
    /\ \/ /\ cli_pc' = "wait_for_selector"
          /\ \E banner \in BOOLEAN : cli_cookie' = banner
          /\ UNCHANGED cli_exit
       \/ CliExit("1") /\ UNCHANGED cli_cookie
    /\ UNCHANGED << cli_args, cli_stdout, cli_region, cli_calls, cli_saved >>

\* lines 97 and 115: the region (or the new-chat button) becomes visible within
\* 90 s, or PlaywrightTimeoutError ends the process.
cli_wait_for_selector ==
    /\ cli_pc = "wait_for_selector"
    /\ \/ /\ cli_region' = TRUE
          /\ cli_pc' = IF cli_args.command = "prompt" THEN "respond" ELSE "new_chat"
          /\ UNCHANGED cli_exit
       \/ CliExit("1") /\ UNCHANGED cli_region
    /\ UNCHANGED << cli_args, cli_stdout, cli_cookie, cli_calls, cli_saved >>

\* lines 100-105 with the handlers of lines 120-125: the controller is asked to
\* wait for the response, the response is extracted, printed and (--save)
\* saved.  Calling a method the controller does not define raises
\* AttributeError, which `except Exception` turns into exit status 1.
cli_respond ==
    /\ cli_pc = "respond"
    /\ IF WaitMethod \in ControllerMethods
       THEN /\ cli_calls' = cli_calls \o <<WaitMethod, "extract_response_as_markdown">>
            /\ \E response \in ExtractedTexts : cli_stdout' = response
            /\ cli_saved' = cli_args.save
            /\ CliExit("0")
       ELSE /\ CliExit("1")
            /\ UNCHANGED << cli_stdout, cli_calls, cli_saved >>
    /\ UNCHANGED << cli_args, cli_region, cli_cookie >>

\* lines 117-118: new_chat() and the print of its message.
cli_new_chat ==
    /\ cli_pc = "new_chat"
    /\ cli_calls' = Append(cli_calls, "new_chat")
    /\ \E message \in NewChatMessages : cli_stdout' = message
    /\ CliExit("0")
    /\ UNCHANGED << cli_args, cli_region, cli_cookie, cli_saved >>

(***************************************************************************)
(* The Completion Detector, src/google_ai_cli/ai_controller.py.            *)
(* Time is counted in ticks of 100 ms, the length of one                   *)
(* page.wait_for_timeout(100).                                             *)
(***************************************************************************)
START_TIMEOUT == 200        \* `> 20`: 20 s for the stream to start

QUIET_PERIOD == 30          \* `< 3.0`: 3 s of inactivity

TIMEOUT == 900              \* timeout=90: the overall ceiling, in ticks

MAX_POLLS == 240            \* range(240)

max_stable_checks == 6

\* ticks one time.sleep(0.5) of the DOM strategy lasts
POLL_TICKS == 5

VARIABLES
    det_pc,                     \* where the detector is
    now,                        \* time.time()
    start_time,                 \* start_time of wait_for_response_completion
    _last_network_activity,     \* self._last_network_activity
    _streaming_detected,        \* self._streaming_detected
    listeners,                  \* subscriptions of _response_handler on the page
    det_outcome,                \* which log line ended the detection
    det_exc,                    \* the exception that left the detector ("" if none)
    polls,                      \* polls the DOM strategy has made
    last_len,                   \* last_len
    stable_checks,              \* stable_checks
    samples,                    \* the lengths observed by the latest polls
    delivered,                  \* the response the latest wait brought (<<>> if none)
    dom_runs                    \* calls of wait_for_dom_stabilization made

detector_vars ==
    << det_pc, now, start_time, _last_network_activity, _streaming_detected, listeners,
       det_outcome, det_exc, polls, last_len, stable_checks, samples, delivered,
       dom_runs >>

\* GoogleAIController.__init__
DetectorInit ==
    /\ det_pc = "idle"
    /\ now = 0
    /\ start_time = 0
    /\ _last_network_activity = 0
    /\ _streaming_detected = FALSE
    /\ listeners = 0
    /\ det_outcome = ""
    /\ det_exc = ""
    /\ polls = 0
    /\ last_len = 0
    /\ stable_checks = 0
    /\ samples = <<>>
    /\ delivered = <<>>
    /\ dom_runs = 0

\* URLs of the responses the page may receive while the detector waits.
ResponseUrls ==
    { <<"https://www.google.com", "/async/", "folsrch?q=x">>,
      <<"https://www.google.com", "/gen_204?atyp=i">> }

\* What one wait can bring: no response, or one response with its URL.
ResponseEvents == {<<>>} \cup {<<url>> : url \in ResponseUrls}

\* Text lengths one inner_text() of the region can have.
Lengths == {0, 5, 10}

\* how many observed lengths `samples` keeps
SampleWindow == max_stable_checks + 1

\* a handler that takes every response for a streaming response
_response_handler_any_url(url, streaming, activity, t) ==
    [streaming |-> TRUE, activity |-> t]

\* _response_handler(response) at time t: the flag and the activity time after it
_response_handler(url, streaming, activity, t) ==
    IF Contains("/async/", url)
    THEN [streaming |-> TRUE, activity |-> t]
    ELSE [streaming |-> streaming, activity |-> activity]

\* the handler applied to what a wait brought, if it is subscribed
Deliver(event, subscribed, streaming, activity, t) ==
    IF event = <<>> \/ subscribed = 0
    THEN [streaming |-> streaming, activity |-> activity]
    ELSE _response_handler(event[1], streaming, activity, t)

\* lines 38-42: subscribe, reset the flag, take the start time
wait_for_response_completion ==
    /\ det_pc = "idle"
    /\ listeners' = listeners + 1
    /\ _last_network_activity' = now
    /\ _streaming_detected' = FALSE
    /\ start_time' = now
    /\ det_pc' = "awaiting_stream_start"
    /\ UNCHANGED << now, det_outcome, det_exc, polls, last_len, stable_checks, samples,
                    delivered, dom_runs >>

\* a wait during which the clock stands still
WaitForTimeout_frozen ==
    \/ /\ now' = now
       /\ \E event \in ResponseEvents :
             LET after == Deliver(event, listeners, _streaming_detected,
                                  _last_network_activity, now)
             IN  /\ _streaming_detected' = after.streaming
                 /\ _last_network_activity' = after.activity
                 /\ delivered' = event
       /\ UNCHANGED << det_pc, det_exc >>
    \/ /\ det_pc' = "raised"
       /\ det_exc' = "Error"
       /\ delivered' = <<>>
       /\ UNCHANGED << now, _streaming_detected, _last_network_activity >>

\* page.wait_for_timeout(100): a tick passes, a response may arrive, or the
\* wait raises (page or browser closed) and the error leaves the detector.
WaitForTimeout ==
    \/ /\ now' = now + 1
       /\ \E event \in ResponseEvents :
             LET after == Deliver(event, listeners, _streaming_detected,
                                  _last_network_activity, now + 1)
             IN  /\ _streaming_detected' = after.streaming
                 /\ _last_network_activity' = after.activity
                 /\ delivered' = event
       /\ UNCHANGED << det_pc, det_exc >>
    \/ /\ det_pc' = "raised"
       /\ det_exc' = "Error"
       /\ delivered' = <<>>
       /\ UNCHANGED << now, _streaming_detected, _last_network_activity >>

\* the first loop left for the second loop when the stream did not start in time
await_stream_start_no_fallback ==
    /\ det_pc = "awaiting_stream_start"
    /\ IF _streaming_detected \/ now - start_time > START_TIMEOUT
       THEN /\ det_pc' = "streaming"
            /\ delivered' = <<>>
            /\ UNCHANGED << now, _streaming_detected, _last_network_activity, listeners,
                            det_exc >>
       ELSE /\ WaitForTimeout
            /\ UNCHANGED listeners
    /\ UNCHANGED << start_time, det_outcome, polls, last_len, stable_checks, samples,
                    dom_runs >>

\* lines 45-51: one pass of the loop that waits for the stream to start
await_stream_start ==
    /\ det_pc = "awaiting_stream_start"
    /\ IF _streaming_detected
       THEN /\ det_pc' = "streaming"
            /\ delivered' = <<>>
            /\ UNCHANGED << now, _streaming_detected, _last_network_activity, listeners,
                            det_exc >>
       ELSE IF now - start_time > START_TIMEOUT
       THEN /\ listeners' = listeners - 1
            /\ det_pc' = "dom_fallback"
            /\ delivered' = <<>>
            /\ UNCHANGED << now, _streaming_detected, _last_network_activity, det_exc >>
       ELSE /\ WaitForTimeout
            /\ UNCHANGED listeners
    /\ UNCHANGED << start_time, det_outcome, polls, last_len, stable_checks, samples,
                    dom_runs >>

\* lines 54-61: one pass of the loop that waits for the stream to become idle
await_idle ==
    /\ det_pc = "streaming"
    /\ IF now - _last_network_activity < QUIET_PERIOD
       THEN IF now - start_time > TIMEOUT
            THEN /\ listeners' = listeners - 1
                 /\ det_pc' = "returned"
                 /\ det_outcome' = "network_timeout"
                 /\ delivered' = <<>>
                 /\ UNCHANGED << now, _streaming_detected, _last_network_activity, det_exc >>
            ELSE /\ WaitForTimeout
                 /\ UNCHANGED << listeners, det_outcome >>
       ELSE /\ listeners' = listeners - 1
            /\ det_pc' = "returned"
            /\ det_outcome' = "network_idle"
            /\ delivered' = <<>>
            /\ UNCHANGED << now, _streaming_detected, _last_network_activity, det_exc >>
    /\ UNCHANGED << start_time, polls, last_len, stable_checks, samples, dom_runs >>

\* the counter without the test for a non-empty text
StableChecks_empty_counts(stable, last, current_len) ==
    IF current_len = last THEN stable + 1 ELSE 0

\* the counter kept, not reset, by a poll that reads a different length
StableChecks_kept(stable, last, current_len) ==
    IF current_len > 0 /\ current_len = last THEN stable + 1 ELSE stable

\* lines 78-84: stable_checks after a poll that read a text of length current_len
StableChecks(stable, last, current_len) ==
    IF current_len > 0 /\ current_len = last THEN stable + 1 ELSE 0

\* lines 78-82: the poll returns from the strategy ("DOM content stabilized")
Settles(stable, last, current_len) ==
    /\ current_len > 0
    /\ current_len = last
    /\ StableChecks(stable, last, current_len) >= max_stable_checks

\* one poll more than range(240) gives
PollsLeft_one_more(made) == made <= MAX_POLLS

\* `for i in range(240)`: after `made` polls the loop goes on or is exhausted
PollsLeft(made) == made < MAX_POLLS

\* the observed lengths, the latest SampleWindow of them
Observe(window, current_len) ==
    IF Len(window) < SampleWindow THEN Append(window, current_len)
    ELSE Append(Tail(window), current_len)

\* lines 65-70, entered from line 49: the region is located and scrolled into
\* view (PlaywrightTimeoutError if it cannot be), the counters are reset.
wait_for_dom_stabilization ==
    /\ det_pc = "dom_fallback"
    /\ \/ /\ det_pc' = "dom_polling"
          /\ last_len' = 0
          /\ stable_checks' = 0
          /\ polls' = 0
          /\ samples' = <<>>
          /\ UNCHANGED det_exc
       \/ /\ det_pc' = "raised"
          /\ det_exc' = "PlaywrightTimeoutError"
          /\ UNCHANGED << last_len, stable_checks, polls, samples >>
    /\ dom_runs' = dom_runs + 1
    /\ UNCHANGED << now, start_time, _last_network_activity, _streaming_detected, listeners,
                    det_outcome, delivered >>

\* lines 73-87: one poll of the region's text, then the sleep; after the last
\* poll the strategy returns with a warning.
dom_poll ==
    /\ det_pc = "dom_polling"
    /\ \/ \E current_len \in Lengths :
             /\ polls' = polls + 1
             /\ samples' = Observe(samples, current_len)
             /\ stable_checks' = StableChecks(stable_checks, last_len, current_len)
             /\ IF Settles(stable_checks, last_len, current_len)
                THEN /\ det_pc' = "returned"
                     /\ det_outcome' = "dom_stabilized"
                     /\ UNCHANGED << last_len, now >>
                ELSE /\ last_len' = current_len
                     /\ now' = now + POLL_TICKS
                     /\ IF PollsLeft(polls + 1)
                        THEN UNCHANGED << det_pc, det_outcome >>
                        ELSE /\ det_pc' = "returned"
                             /\ det_outcome' = "dom_timeout"
             /\ UNCHANGED det_exc
       \/ /\ det_pc' = "raised"
          /\ det_exc' = "PlaywrightTimeoutError"
          /\ UNCHANGED << polls, samples, stable_checks, last_len, now, det_outcome >>
    /\ UNCHANGED << start_time, _last_network_activity, _streaming_detected, listeners,
                    delivered, dom_runs >>

(***************************************************************************)
(* The Extractor (ai_controller.py, extract_response_as_markdown).  The    *)
(* markup of the region is a sequence of nodes: a text node carries a      *)
(* text, an element carries its tag name, its classes, its href and its    *)
(* contents.                                                               *)
(***************************************************************************)
HEADING_SELECTOR == "otQkpb"

PARAGRAPH_SELECTOR == "Y3BBE"

LIST_SELECTOR == "U6u95"

\* a rendering artifact as it appears in the markup, matched by Sv6Kpe\[.*?\]
ARTIFACT == "Sv6Kpe[0]"

EXTRACT_ERROR == <<"Error: Could not extract response.">>

T(text) == [kind |-> "text", text |-> text, name |-> "", class |-> {}, href |-> <<>>,
            contents |-> <<>>]

E(name, class, contents) ==
    [kind |-> "tag", text |-> <<>>, name |-> name, class |-> class, href |-> <<>>,
     contents |-> contents]

A(href, contents) ==
    [kind |-> "tag", text |-> <<>>, name |-> "a", class |-> {}, href |-> href,
     contents |-> contents]

\* The regions extract_response_as_markdown may find on the page.
Regions ==
    { <<>>,
      << E("div", {}, << T(<<"plain", " ", "words">>) >>) >>,
      << E("div", {HEADING_SELECTOR}, << T(<<"Title">>) >>),
         E("div", {PARAGRAPH_SELECTOR},
           << T(<<"see", " ">>), E("b", {}, << T(<<" ", "this", " ">>) >>), T(<<" ">>),
              A(<<"https://example.com">>, << T(<<"link">>) >>) >>) >>,
      << E("div", {PARAGRAPH_SELECTOR}, << T(<<" ", "\n">>) >>) >>,
      << E("ul", {LIST_SELECTOR}, << T(<<"\n">>) >>), E("span", {}, << T(<<"loose">>) >>) >>,
      << E("ul", {LIST_SELECTOR},
           << E("li", {}, << T(<<"one">>) >>),
              E("li", {}, << E("em", {}, << T(<<"two">>) >>) >>) >>) >>,
      << E("div", {HEADING_SELECTOR}, <<>>) >>,
      << E("ul", {LIST_SELECTOR}, << E("li", {}, <<>>) >>) >>,
      << E("div", {PARAGRAPH_SELECTOR}, << T(<<"text", ARTIFACT>>) >>) >>,
      << E("div", {PARAGRAPH_SELECTOR}, << T(<<ARTIFACT>>) >>) >>,
      << E("div", {},
           << E("div", {PARAGRAPH_SELECTOR}, << T(<<"inner">>) >>) >>),
         E("div", {PARAGRAPH_SELECTOR, "extra"}, << E("span", {}, << T(<<"deep">>) >>) >>) >>,
      << E("ul", {LIST_SELECTOR},
           << E("li", {},
                << T(<<"outer">>),
                   E("ul", {LIST_SELECTOR}, << E("li", {}, << T(<<"nested">>) >>) >>) >>) >>) >> }

\* What a read of the region through the browser can do.
ReadOutcomes == {"ok", "PlaywrightTimeoutError", "Error"}

\* What the parsing library can do: work, or raise an exception of the classes
\* the handler of line 144 names.
ParseOutcomes == {"ok", "AttributeError", "TypeError", "IndexError"}

RECURSIVE Flatten(_)
\* the texts of a sequence of nodes, in document order, one after another
Flatten(nodes) ==
    IF nodes = <<>> THEN <<>>
    ELSE LET n == Head(nodes)
         IN  (IF n.kind = "text" THEN n.text ELSE Flatten(n.contents)) \o Flatten(Tail(nodes))

\* container.inner_text(): the flattened plain text of the region
inner_text(nodes) == Flatten(nodes)

RECURSIVE Without(_, _)
Without(tok, text) ==
    IF text = <<>> THEN <<>>
    ELSE (IF Head(text) = tok THEN <<>> ELSE << Head(text) >>) \o Without(tok, Tail(text))

RECURSIVE CleanMarkup(_)
\* line 114: re.sub(r'Sv6Kpe\[.*?\]', '', html_content)
CleanMarkup(nodes) ==
    IF nodes = <<>> THEN <<>>
    ELSE LET n == Head(nodes)
         IN  << IF n.kind = "text"
                THEN [n EXCEPT !.text = Without(ARTIFACT, n.text)]
                ELSE [n EXCEPT !.contents = CleanMarkup(n.contents)] >>
             \o CleanMarkup(Tail(nodes))

RECURSIVE StrippedStrings(_)
\* get_text(strip=True): every string stripped, the empty ones dropped, joined
StrippedStrings(nodes) ==
    IF nodes = <<>> THEN <<>>
    ELSE LET n == Head(nodes)
         IN  (IF n.kind = "text" THEN Strip(n.text) ELSE StrippedStrings(n.contents))
             \o StrippedStrings(Tail(nodes))

get_text(element) == StrippedStrings(element.contents)

RECURSIVE ParseContents(_)
\* lines 92-105, over the contents of an element
ParseContents(nodes) ==
    IF nodes = <<>> THEN <<>>
    ELSE LET child == Head(nodes)
         IN  (IF child.kind = "text" THEN child.text
              ELSE IF child.name \in {"b", "strong"}
              THEN <<"**">> \o get_text(child) \o <<"**">>
              ELSE IF child.name \in {"i", "em"}
              THEN <<"*">> \o get_text(child) \o <<"*">>
              ELSE IF child.name = "a"
              THEN <<"[">> \o get_text(child) \o <<"](">> \o child.href \o <<")">>
              ELSE ParseContents(child.contents))
             \o ParseContents(Tail(nodes))

_parse_element_to_markdown(element) == ParseContents(element.contents)

Selected(element) ==
    /\ element.kind = "tag"
    /\ element.class \cap {HEADING_SELECTOR, PARAGRAPH_SELECTOR, LIST_SELECTOR} # {}

RECURSIVE Select(_)
\* soup.select(selectors): every matching element of the tree, in document order
Select(nodes) ==
    IF nodes = <<>> THEN <<>>
    ELSE LET n == Head(nodes)
         IN  (IF Selected(n) THEN << n >> ELSE <<>>)
             \o (IF n.kind = "tag" THEN Select(n.contents) ELSE <<>>)
             \o Select(Tail(nodes))

RECURSIVE ListItems(_)
\* lines 129-131: one "* item" for every direct li child
ListItems(nodes) ==
    IF nodes = <<>> THEN <<>>
    ELSE LET n == Head(nodes)
         IN  (IF n.kind = "tag" /\ n.name = "li"
              THEN << <<"*", " ">> \o Strip(_parse_element_to_markdown(n)) >>
              ELSE <<>>)
             \o ListItems(Tail(nodes))

\* lines 121-132: what one selected element appends to markdown_output
RenderBlock(element) ==
    IF HEADING_SELECTOR \in element.class
    THEN << <<"\n", "###", " ">> \o get_text(element) \o <<"\n">> >>
    ELSE IF PARAGRAPH_SELECTOR \in element.class
    THEN << Strip(_parse_element_to_markdown(element)) >>
    ELSE IF LIST_SELECTOR \in element.class
    THEN ListItems(element.contents) \o << <<>> >>
    ELSE <<>>

RECURSIVE RenderBlocks(_)
RenderBlocks(elements) ==
    IF elements = <<>> THEN <<>>
    ELSE RenderBlock(Head(elements)) \o RenderBlocks(Tail(elements))

RECURSIVE Join(_)
\* "\n".join(markdown_output)
Join(items) ==
    IF items = <<>> THEN <<>>
    ELSE IF Len(items) = 1 THEN Head(items)
    ELSE Head(items) \o <<"\n">> \o Join(Tail(items))

\* lines 114-134: parsed_response for the markup html_content
ParsedResponse(html_content) == Strip(Join(RenderBlocks(Select(CleanMarkup(html_content)))))

VARIABLES
    ext_pc,                     \* where extract_response_as_markdown is
    region,                     \* the markup of the region on the page
    ext_result,                 \* the text returned
    ext_exc,                    \* the exception that left the method ("" if none)
    ext_caught,                 \* the exception the handler of line 144 caught
    ext_tier                    \* which return statement returned

extractor_vars == << ext_pc, region, ext_result, ext_exc, ext_caught, ext_tier >>

ExtractorInit ==
    /\ ext_pc = "idle"
    /\ region = <<>>
    /\ ext_result = None
    /\ ext_exc = ""
    /\ ext_caught = ""
    /\ ext_tier = ""

\* lines 109-112: the region is located and its markup read; an exception of
\* the read is none of those line 144 catches.
extract_response_as_markdown ==
    /\ ext_pc = "idle"
    /\ \E r \in Regions, read \in ReadOutcomes :
          /\ region' = r
          /\ IF read = "ok"
             THEN ext_pc' = "parsing" /\ UNCHANGED ext_exc
             ELSE ext_pc' = "raised" /\ ext_exc' = read
    /\ UNCHANGED << ext_result, ext_caught, ext_tier >>

\* lines 114-143: the markup is parsed and rendered
extract_parse ==
    /\ ext_pc = "parsing"
    /\ \E parse \in ParseOutcomes :
          IF parse # "ok"
          THEN /\ ext_pc' = "handling"
               /\ ext_caught' = parse
               /\ UNCHANGED << ext_result, ext_tier >>
          ELSE IF ParsedResponse(region) = <<>>
          THEN /\ ext_pc' = "plain_text"
               /\ UNCHANGED << ext_result, ext_tier, ext_caught >>
          ELSE /\ ext_pc' = "returned"
               /\ ext_result' = ParsedResponse(region)
               /\ ext_tier' = "structured"
               /\ UNCHANGED ext_caught
    /\ UNCHANGED << region, ext_exc >>

\* the empty parsed response returned in place of the plain text
extract_plain_text_parsed ==
    /\ ext_pc = "plain_text"
    /\ \E read \in ReadOutcomes :
          IF read = "ok"
          THEN /\ ext_pc' = "returned"
               /\ ext_result' = ParsedResponse(region)
               /\ ext_tier' = "plain_text"
               /\ UNCHANGED ext_exc
          ELSE /\ ext_pc' = "raised"
               /\ ext_exc' = read
               /\ UNCHANGED << ext_result, ext_tier >>
    /\ UNCHANGED << region, ext_caught >>

\* line 140: the plain text read when parsing gave nothing; an exception of
\* this read is none of those line 144 catches.
extract_plain_text ==
    /\ ext_pc = "plain_text"
    /\ \E read \in ReadOutcomes :
          IF read = "ok"
          THEN /\ ext_pc' = "returned"
               /\ ext_result' = inner_text(region)
               /\ ext_tier' = "plain_text"
               /\ UNCHANGED ext_exc
          ELSE /\ ext_pc' = "raised"
               /\ ext_exc' = read
               /\ UNCHANGED << ext_result, ext_tier >>
    /\ UNCHANGED << region, ext_caught >>

\* lines 144-150: the handler reads the plain text and catches
\* PlaywrightTimeoutError and AttributeError of that read
extract_fallback ==
    /\ ext_pc = "handling"
    /\ \E read \in ReadOutcomes \cup {"AttributeError"} :
          IF read = "ok"
          THEN /\ ext_pc' = "returned"
               /\ ext_result' = inner_text(region)
               /\ ext_tier' = "plain_text"
               /\ UNCHANGED ext_exc
          ELSE IF read \in {"PlaywrightTimeoutError", "AttributeError"}
          THEN /\ ext_pc' = "returned"
               /\ ext_result' = EXTRACT_ERROR
               /\ ext_tier' = "sentinel"
               /\ UNCHANGED ext_exc
          ELSE /\ ext_pc' = "raised"
               /\ ext_exc' = read
               /\ UNCHANGED << ext_result, ext_tier >>
    /\ UNCHANGED << region, ext_caught >>

NextExtractor ==
    \/ extract_response_as_markdown /\ UNCHANGED << agent_vars, cli_vars, detector_vars >>
    \/ extract_parse /\ UNCHANGED << agent_vars, cli_vars, detector_vars >>
    \/ extract_plain_text /\ UNCHANGED << agent_vars, cli_vars, detector_vars >>
    \/ extract_fallback /\ UNCHANGED << agent_vars, cli_vars, detector_vars >>

NextDetector ==
    \/ wait_for_response_completion /\ UNCHANGED << agent_vars, cli_vars, extractor_vars >>
    \/ await_stream_start /\ UNCHANGED << agent_vars, cli_vars, extractor_vars >>
    \/ await_idle /\ UNCHANGED << agent_vars, cli_vars, extractor_vars >>
    \/ wait_for_dom_stabilization /\ UNCHANGED << agent_vars, cli_vars, extractor_vars >>
    \/ dom_poll /\ UNCHANGED << agent_vars, cli_vars, extractor_vars >>

NextCLI ==
    \/ cli_parse_args /\ UNCHANGED << agent_vars, detector_vars, extractor_vars >>
    \/ cli_launch /\ UNCHANGED << agent_vars, detector_vars, extractor_vars >>
    \/ cli_goto /\ UNCHANGED << agent_vars, detector_vars, extractor_vars >>
    \/ cli_wait_for_selector /\ UNCHANGED << agent_vars, detector_vars, extractor_vars >>
    \/ cli_respond /\ UNCHANGED << agent_vars, detector_vars, extractor_vars >>
    \/ cli_new_chat /\ UNCHANGED << agent_vars, detector_vars, extractor_vars >>

vars == << agent_vars, cli_vars, detector_vars, extractor_vars >>

Init == AgentInit /\ CliInit /\ DetectorInit /\ ExtractorInit

Next ==
    \/ run /\ UNCHANGED << cli_vars, detector_vars, extractor_vars >>
    \/ run_iteration /\ UNCHANGED << cli_vars, detector_vars, extractor_vars >>
    \/ call_ai_raises /\ UNCHANGED << cli_vars, detector_vars, extractor_vars >>
    \/ _execute_tool_call /\ UNCHANGED << cli_vars, detector_vars, extractor_vars >>
    \/ _generate_final_report /\ UNCHANGED << cli_vars, detector_vars, extractor_vars >>
    \/ main /\ UNCHANGED << cli_vars, detector_vars, extractor_vars >>

\* The orchestrator process.
Spec == Init /\ [][Next]_vars

\* The delegated CLI process.
SpecCLI == Init /\ [][NextCLI]_vars

\* The Completion Detector of the controller.
SpecDetector == Init /\ [][NextDetector]_vars

\* The Extractor of the controller.
SpecExtractor == Init /\ [][NextExtractor]_vars

\* The steps of the detector in which every page primitive returns.
NextDetectorReturning == NextDetector /\ det_pc' # "raised"

\* The Completion Detector when the page primitives return and time advances:
\* a wait or a sleep that has been started ends.
SpecDetectorLive ==
    Init /\ [][NextDetectorReturning]_vars /\ WF_vars(NextDetectorReturning)


(***************************************************************************)
(* Properties.                                                             *)
(***************************************************************************)
Last(q) == q[Len(q)]

IsAssistant(turn) == turn.role = "assistant"

\* the replies this run has received, in order
AssistantTurns == SelectSeq(conversation_history, IsAssistant)

ValidPayloads == {p \in Payloads : JsonLoads(p).kind = "object" /\ JsonLoads(p).has_query}

\* run() has returned / has let an exception escape (also after main() ended)
Returned == report # None

Raised == exc # ""

\* C1: in the `prompt` command of the delegated CLI, once the response region
\* has become visible the process waits for completion, extracts, prints the
\* extracted text and exits with status zero.
C1_PromptExitsZero ==
    (cli_pc = "exited" /\ cli_args.command = "prompt" /\ cli_region)
        => /\ cli_exit = "0"
           /\ cli_stdout \in ExtractedTexts
           /\ Len(cli_calls) = 2
           /\ cli_calls[2] = "extract_response_as_markdown"

\* The scripted model of C2: one reply with exactly one search_google call
\* with a valid payload, then a reply with the sentinel and no tool call.
ScriptPlayed ==
    /\ max_iterations >= 2
    /\ Len(AssistantTurns) = 2
    /\ Len(AssistantTurns[1].tool_calls) = 1
    /\ AssistantTurns[1].tool_calls[1].name = "search_google"
    /\ AssistantTurns[1].tool_calls[1].arguments \in ValidPayloads
    /\ AssistantTurns[2].tool_calls = <<>>
    /\ AssistantTurns[2].content # None
    /\ Contains(SENTINEL, AssistantTurns[2].content)

\* C2: for the scripted model (one tool call, then the sentinel) and
\* max_iterations >= 2, run makes exactly one gateway invocation, exactly two
\* tool-enabled requests and exactly one tool-free synthesis request, and
\* returns the synthesis reply's text unchanged.
C2_ScriptedRun ==
    ScriptPlayed =>
        /\ gateway_calls = 1
        /\ tool_requests = 2
        /\ status = "complete"
        /\ pc = "report" => synth_requests = 0
        /\ pc # "report" => synth_requests = 1 /\ ~last_request.use_tools
        /\ pc = "returned" => report = last_reply /\ report \in SynthesisTexts
        /\ Raised => exc \in APIErrors /\ ~Returned

C2_Witness ==
    /\ ScriptPlayed
    /\ pc = "returned"
    /\ report = <<" ", "report", " ">>
    /\ synth_requests = 1

\* The loop of run() ran all its max_iterations passes: every reply carried
\* tool calls and every one of them was executed.
Exhausted ==
    /\ runs > 0
    /\ Len(AssistantTurns) = max_iterations
    /\ pending = <<>>
    /\ max_iterations > 0 => Last(AssistantTurns).tool_calls # <<>>

\* C3: a run never issues more than max_iterations tool-enabled requests;
\* when the iterations are exhausted (every reply carried tool calls) the run
\* goes on to synthesis and returns a report: the only error that can end
\* such a run is the synthesis request's own API failure.
C3_IterationBound ==
    /\ tool_requests <= max_iterations
    /\ Exhausted =>
          /\ pc \in {"report", "returned", "raised", "exited"}
          /\ status = "max_iterations"
          /\ pc = "returned" => Returned
          /\ Raised => exc \in APIErrors /\ synth_requests = 1

C3_Witness ==
    /\ Exhausted
    /\ max_iterations = MaxIterations
    /\ tool_requests = MaxIterations
    /\ Returned
    /\ report \in SynthesisTexts

\* C4: synthesis issues a model request iff research_data is not empty: with
\* no entry the fixed message is returned and no request is made; otherwise
\* exactly one tool-free request whose user content is the serialised list of
\* all entries in order, and the reply's text is returned unmodified.
C4_Synthesis ==
    /\ synth_requests <= 1
    /\ pc \in {"idle", "call_ai", "tools", "report"} => synth_requests = 0
    /\ (pc \in {"returned", "raised"} /\ status # "")
          => (synth_requests = 1 <=> research_data # <<>>)
    /\ (pc = "returned" /\ research_data = <<>>) => report = NO_RESEARCH
    /\ synth_requests = 1 =>
          /\ ~last_request.use_tools
          /\ Len(last_request.messages) = 2
          /\ last_request.messages[2].role = "user"
          /\ last_request.messages[2].content = JsonDumps(research_data)
          /\ pc = "returned" => report = last_reply /\ last_reply \in SynthesisTexts

C4_Witness ==
    /\ pc = "returned"
    /\ Len(research_data) = 2
    /\ synth_requests = 1
    /\ report = <<" ", "report", " ">>

C4_WitnessNoResearch ==
    /\ pc = "returned"
    /\ research_data = <<>>
    /\ tool_requests > 0
    /\ report = NO_RESEARCH

\* C5: a run() with max_iterations = 0 never invokes the chat-completions
\* capability or the gateway and returns the fixed "no research" message.
C5_ZeroIterations ==
    (runs > 0 /\ max_iterations = 0) =>
        /\ tool_requests = 0
        /\ synth_requests = 0
        /\ gateway_calls = 0
        /\ ~Raised
        /\ pc = "returned" => report = NO_RESEARCH


\* search_google was invoked with a string query and the delegated process
\* ended in one of the outcomes subprocess.run reports.
GatewayInvoked == gateway_call # NoGatewayCall /\ gateway_call.query # None

\* C6: search_google never raises to its caller: whatever the outcome of the
\* delegated process (success, not found, non-zero exit, timeout) it returns
\* a string; for a non-zero exit the string contains the process's
\* error-channel content, for a timeout it is a timeout diagnostic.
C6_GatewayReturnsText ==
    GatewayInvoked =>
        /\ ~gateway_call.raised
        /\ gateway_call.value # None
        /\ gateway_call.kind \in {"exit0"} \cup FailureKinds
        /\ gateway_call.kind = "exit0" => gateway_call.value = Strip(gateway_call.stdout)
        /\ gateway_call.kind = "nonzero" =>
              /\ Strip(gateway_call.stderr) # <<>>
              /\ IsSubText(Strip(gateway_call.stderr), gateway_call.value)
              /\ Head(gateway_call.value) = "Error: The search script failed with exit code "
        /\ gateway_call.kind = "timeout" =>
              gateway_call.value = <<"Error: The search script timed out after 180 seconds.">>
        /\ gateway_call.kind = "not_found" =>
              Head(gateway_call.value) = "Error: The script '"

C6_Witness ==
    /\ GatewayInvoked
    /\ gateway_call.kind = "nonzero"
    /\ gateway_call.value =
          <<"Error: The search script failed with exit code ", "1", ".", "\n", "Stderr: ",
            "ERROR - Operation timed out.">>
    /\ pc = "call_ai"

\* A step in which search_google is invoked and the delegated process fails.
GatewayFails ==
    /\ gateway_calls' = gateway_calls + 1
    /\ gateway_call'.kind \in FailureKinds

\* C7: when a gateway invocation fails during an iteration that is not the
\* last, the orchestrator appends a tool-result turn whose content is exactly
\* the returned diagnostic and whose identifier is the call's, and the loop
\* goes on: to the reply's next tool call if there is one, else to the next
\* tool-enabled model request; it neither aborts nor jumps to synthesis.
C7_FailureFeedsBack ==
    [][ /\ GatewayFails =>
            /\ Len(conversation_history') = Len(conversation_history) + 1
            /\ SubSeq(conversation_history', 1, Len(conversation_history)) = conversation_history
            /\ Last(conversation_history').role = "tool"
            /\ Last(conversation_history').content = gateway_call'.value
            /\ Last(conversation_history').tool_call_id = Head(pending).id
            /\ exc' = ""
            /\ Len(pending) > 1 => pc' = "tools" /\ pending' = Tail(pending)
            /\ (Len(pending) = 1 /\ i + 1 < max_iterations) => pc' = "call_ai" /\ i' = i + 1
        /\ pc = "call_ai" =>
            /\ tool_requests' = tool_requests + 1
            /\ last_request' = [messages |-> conversation_history, use_tools |-> TRUE]
      ]_vars

\* a timed-out call was fed back and the next iteration's request was issued
C7_Witness ==
    /\ gateway_call.kind = "timeout"
    /\ tool_requests = 2
    /\ Len(last_request.messages) = 4
    /\ Last(last_request.messages).role = "tool"
    /\ Last(last_request.messages).content =
          <<"Error: The search script timed out after 180 seconds.">>
    /\ Last(last_request.messages).tool_call_id = IdAt(1)

MalformedPayloads == Payloads \ ValidPayloads

\* C8: a tool-call record with a malformed payload (not JSON, JSON that is
\* not an object, an object without a string `query`) never aborts the run:
\* no exception escapes from executing it.
C8_MalformedArgumentsReported ==
    (pending # <<>> /\ Head(pending).arguments \in MalformedPayloads)
        => exc \notin {"AttributeError", "TypeError"}

\* run() has just been entered: nothing was requested or returned yet.
RunStarted ==
    /\ runs > 0
    /\ pc \in {"call_ai", "report"}
    /\ tool_requests = 0
    /\ synth_requests = 0

\* C9: at the start of every call to run(), also a second call on the same
\* instance, the history is exactly the system turn and the user turn and
\* research_data is empty.
C9_NoStateAcrossRuns ==
    RunStarted =>
        /\ Len(conversation_history) = 2
        /\ conversation_history[1].role = "system"
        /\ conversation_history[2].role = "user"
        /\ research_data = <<>>

\* C10: an API failure of any model request propagates out of run(): the
\* failed request appends nothing to the history, no report is returned, no
\* further request or gateway invocation is made in that run, and the
\* process ends with exit status 1.
C10_ApiFailureIsFatal ==
    [][ /\ (exc = "" /\ exc' \in APIErrors) =>
            /\ conversation_history' = conversation_history
            /\ research_data' = research_data
            /\ report' = None
            /\ pc' = "raised"
            /\ tool_requests' + synth_requests' = tool_requests + synth_requests + 1
        /\ exc \in APIErrors =>
            /\ exit_status' = "1"
            /\ pc' = "exited"
            /\ UNCHANGED << conversation_history, research_data, report, exc, runs,
                            tool_requests, synth_requests, gateway_calls >>
      ]_vars

C10_Witness ==
    /\ exc \in APIErrors
    /\ exit_status = "1"
    /\ report = None
    /\ synth_requests = 1

(***************************************************************************)
(* The Completion Detector (ai_controller.py).                             *)
(***************************************************************************)
SettledByDom == det_outcome = "dom_stabilized"

\* the last n observed lengths each equal the length observed just before
RepeatsAtEnd(n) ==
    /\ Len(samples) >= n + 1
    /\ \A k \in (Len(samples) - n + 1)..Len(samples) : samples[k] = samples[k - 1]

\* C11: the DOM strategy settles at a poll only if that poll and the 5 polls
\* before it each read a length equal to the length read at the preceding poll;
\* a poll that reads a different length leaves the stability counter at zero.
\* For the lengths 5,5,5,5,5,5,10 the strategy has not settled at the sixth
\* sample and the counter is zero after the seventh.
C11_SettlesAfterSixRepeats ==
    /\ SettledByDom => RepeatsAtEnd(max_stable_checks)
    /\ (Len(samples) >= 2 /\ samples[Len(samples)] # samples[Len(samples) - 1])
          => stable_checks = 0
    /\ (polls = 6 /\ samples = << 5, 5, 5, 5, 5, 5 >>) => ~SettledByDom
    /\ (polls = 7 /\ samples = << 5, 5, 5, 5, 5, 5, 10 >>)
          => (~SettledByDom /\ stable_checks = 0)

C11_Witness ==
    /\ det_pc = "dom_polling"
    /\ polls = 7
    /\ samples = << 5, 5, 5, 5, 5, 5, 10 >>

\* C12: the DOM strategy makes at most 240 polls; when every poll can read the
\* region and the stability threshold is never reached, the strategy returns
\* normally, without an exception, once the 240th poll is made.
C12_DomPollingBounded ==
    /\ polls <= MAX_POLLS
    /\ det_pc = "dom_polling" => polls < MAX_POLLS
    /\ polls = MAX_POLLS =>
          /\ det_pc = "returned"
          /\ det_exc = ""
          /\ det_outcome \in {"dom_stabilized", "dom_timeout"}
    /\ det_outcome = "dom_timeout" => (polls = MAX_POLLS /\ det_pc = "returned")

C12_Witness ==
    /\ det_outcome = "dom_timeout"
    /\ det_pc = "returned"
    /\ polls = MAX_POLLS
    /\ stable_checks < max_stable_checks

\* control has left wait_for_response_completion (or its fallback polls)
DetectionLeft == det_pc \in {"returned", "raised"}

\* C13: on every exit of the network-activity strategy (quiet period, overall
\* timeout, fallback to the DOM strategy, an error raised while waiting) the
\* response handler subscribed at entry is no longer subscribed, and on the
\* fallback it is unsubscribed before the DOM strategy polls.
C13_HandlerUnsubscribedOnExit ==
    /\ DetectionLeft => listeners = 0
    /\ det_pc \in {"dom_fallback", "dom_polling"} => listeners = 0

\* the step is a wait that brought a response while the handler is subscribed
Brought == delivered' # <<>> /\ listeners > 0

RelevantUrl(url) == Contains("/async/", url)

\* C20: from Streaming the network-activity strategy returns only when the last
\* relevant response is a full quiet period of 3 s old or the overall timeout,
\* counted from the start of the detection, is exceeded; a relevant response
\* restarts the quiet period, and a response whose URL does not match changes
\* neither the streaming flag nor the last-activity time.
C20_StreamingEndsOnQuietOrTimeout ==
    [][ /\ (det_pc = "streaming" /\ det_pc' = "returned") =>
              \/ /\ det_outcome' = "network_idle"
                 /\ now' - _last_network_activity' >= QUIET_PERIOD
              \/ /\ det_outcome' = "network_timeout"
                 /\ now' - start_time' > TIMEOUT
        /\ (Brought /\ RelevantUrl(delivered'[1])) =>
              /\ _streaming_detected'
              /\ _last_network_activity' = now'
        /\ (Brought /\ ~RelevantUrl(delivered'[1])) =>
              UNCHANGED << _streaming_detected, _last_network_activity >>
        /\ det_pc' = "streaming" => _streaming_detected'
      ]_vars

C20_Witness ==
    /\ det_pc = "returned"
    /\ det_outcome = "network_idle"
    /\ _last_network_activity > start_time + 1
    /\ now - _last_network_activity >= QUIET_PERIOD

(***************************************************************************)
(* The Extractor (ai_controller.py).                                       *)
(***************************************************************************)
\* C14: extract_response_as_markdown never lets an exception reach its caller;
\* whichever step fails, it returns the region's flattened plain text, or the
\* error string when that read fails too.
C14_ExtractNeverRaises ==
    /\ ext_pc # "raised"
    /\ ext_exc = ""
    /\ ext_pc = "returned" => ext_result \in {ParsedResponse(region), inner_text(region),
                                              EXTRACT_ERROR}

\* no element of the markup is selected, or every selected one renders to nothing
NothingRendered(markup) ==
    LET blocks == Select(CleanMarkup(markup))
    IN  \A k \in 1..Len(blocks) :
           \A j \in 1..Len(RenderBlock(blocks[k])) : RenderBlock(blocks[k])[j] = <<>>

\* C15: when no element of the markup matches the heading, paragraph or list
\* selector, or every matching block renders to empty text, the text the
\* extractor returns is the flattened plain text of the region.
C15_NoBlocksGivesPlainText ==
    (ext_pc = "returned" /\ ext_tier # "sentinel" /\ NothingRendered(region))
       => (ext_result = inner_text(region) /\ ext_tier = "plain_text")

C15_Witness ==
    /\ ext_pc = "returned"
    /\ ext_caught = ""
    /\ NothingRendered(region)
    /\ Select(region) # <<>>
    /\ inner_text(region) # <<>>
    /\ ext_result = inner_text(region)

(***************************************************************************)
(* The orchestrator (research_agent.py), tool calls and the end of the     *)
(* loop.                                                                   *)
(***************************************************************************)
\* A step in which search_google is invoked.
GatewayStep == gateway_calls' = gateway_calls + 1

\* C16: the research entries are exactly one per gateway invocation that
\* returned extracted text, in invocation order; an invocation that returns an
\* error diagnostic (not found, non-zero exit, timeout) adds no entry, so a run
\* whose invocations all failed ends with the "no research conducted" message.
C16_EntryPerSuccessfulInvocation ==
    [][ /\ (GatewayStep /\ gateway_call'.kind = "exit0") =>
              research_data' = Append(research_data, [query |-> gateway_call'.query,
                                                      result |-> gateway_call'.value])
        /\ (GatewayStep /\ gateway_call'.kind # "exit0") => research_data' = research_data
        /\ ~GatewayStep => research_data' = research_data
      ]_vars

\* the position of the last assistant turn of the history (0 if there is none)
LastAssistantAt ==
    LET at == {k \in 1..Len(conversation_history) : IsAssistant(conversation_history[k])}
    IN  IF at = {} THEN 0 ELSE CHOOSE k \in at : \A other \in at : other <= k

\* the tool-call records of the last reply
LastToolCalls ==
    IF LastAssistantAt = 0 THEN <<>> ELSE conversation_history[LastAssistantAt].tool_calls

WellFormed(tool_calls) ==
    \A j \in 1..Len(tool_calls) : tool_calls[j].arguments \in ValidPayloads

\* the turns after the last reply answer its first n tool calls, in order
ToolTurnsFollow(n) ==
    /\ Len(conversation_history) = LastAssistantAt + n
    /\ \A j \in 1..n :
          /\ conversation_history[LastAssistantAt + j].role = "tool"
          /\ conversation_history[LastAssistantAt + j].tool_call_id = LastToolCalls[j].id

\* the tool calls of the last reply are being executed, or have all been
InDispatch ==
    /\ LastToolCalls # <<>>
    /\ WellFormed(LastToolCalls)
    /\ pc \in {"tools", "call_ai", "report"}

DispatchOrdered ==
    InDispatch =>
       /\ pc = "tools" => pending # <<>>
       /\ pc # "tools" => pending = <<>>
       /\ Len(pending) <= Len(LastToolCalls)
       /\ pending = SubSeq(LastToolCalls, Len(LastToolCalls) - Len(pending) + 1,
                           Len(LastToolCalls))
       /\ ToolTurnsFollow(Len(LastToolCalls) - Len(pending))

\* C17: for a reply with k >= 1 tool-call records with well-formed payloads,
\* before the next model request the history has gained, right after the
\* assistant turn, exactly k tool-result turns in the order of the records, the
\* j-th with the j-th record's identifier; the gateway is invoked for one
\* record at a time in that order, and within a run the earlier turns of the
\* history are never changed or removed.
C17_ToolTurnsInOrder ==
    [][ /\ DispatchOrdered'
        /\ GatewayStep =>
              /\ pc = "tools"
              /\ gateway_call'.query = GetQuery(JsonLoads(Head(pending).arguments))
              /\ Len(conversation_history') <= Len(conversation_history) + 1
        /\ runs' = runs =>
              /\ Len(conversation_history') >= Len(conversation_history)
              /\ SubSeq(conversation_history', 1, Len(conversation_history))
                    = conversation_history
      ]_vars

C17_Witness ==
    /\ pc = "call_ai"
    /\ Len(LastToolCalls) = 2
    /\ WellFormed(LastToolCalls)
    /\ gateway_calls = 2
    /\ ToolTurnsFollow(2)
    /\ conversation_history[LastAssistantAt + 2].tool_call_id = IdAt(2)

InvalidJson == {p \in Payloads : JsonLoads(p).kind = "invalid"}

\* C18: when the payload of a tool-call record is not JSON, the orchestrator
\* appends one tool-result turn with the record's identifier and the
\* invalid-arguments diagnostic, does not invoke the gateway for it, appends no
\* research entry, and goes on with the remaining tool calls of the reply.
C18_InvalidJsonReported ==
    [][ (pc = "tools" /\ Head(pending).arguments \in InvalidJson) =>
           /\ conversation_history' =
                 Append(conversation_history,
                        Turn("tool", <<"Error: Invalid arguments format.">>, <<>>,
                             Head(pending).id, Head(pending).name))
           /\ gateway_calls' = gateway_calls
           /\ research_data' = research_data
           /\ exc' = ""
           /\ pending' = Tail(pending)
           /\ Tail(pending) # <<>> => pc' = "tools"
           /\ Tail(pending) = <<>> => pc' \in {"call_ai", "report"}
      ]_vars

C18_Witness ==
    /\ pc = "tools"
    /\ Len(pending) = 1
    /\ Last(conversation_history).role = "tool"
    /\ Last(conversation_history).content = <<"Error: Invalid arguments format.">>
    /\ Last(conversation_history).tool_call_id = IdAt(1)
    /\ gateway_calls = 0
    /\ research_data = <<>>

\* the last reply of this run carried no tool-call record
LoopEnded == AssistantTurns # <<>> /\ Last(AssistantTurns).tool_calls = <<>>

\* C19: a reply without tool-call records ends the loop whether or not its
\* text holds the sentinel: no tool-enabled request and no gateway invocation
\* follow in that run, and synthesis is made from the entries collected so
\* far.  A reply with tool-call records is dispatched as tool calls and does
\* not end the loop, even if its text holds the sentinel.
C19_NoToolCallsEndsLoop ==
    [][ /\ (LoopEnded /\ runs' = runs) =>
              /\ pc \in {"report", "returned", "raised", "exited"}
              /\ tool_requests' = tool_requests
              /\ gateway_calls' = gateway_calls
              /\ research_data' = research_data
              /\ conversation_history' = conversation_history
              /\ synth_requests' = synth_requests + 1 =>
                    last_request' = [messages |-> ReportMessages(research_data),
                                     use_tools |-> FALSE]
        /\ (pc = "call_ai" /\ pc' # "raised") =>
              /\ Last(conversation_history').tool_calls = <<>> =>
                    (pc' = "report" /\ status' \in {"complete", "no_tool"})
              /\ Last(conversation_history').tool_calls # <<>> =>
                    (pc' = "tools" /\ pending' = Last(conversation_history').tool_calls)
      ]_vars

C19_Witness ==
    /\ pc = "call_ai"
    /\ gateway_calls = 1
    /\ Len(AssistantTurns) = 1
    /\ Last(AssistantTurns).tool_calls # <<>>
    /\ Contains(SENTINEL, Last(AssistantTurns).content)

\* a step in which the first relevant response of the detection is observed
StreamStarts == ~_streaming_detected /\ _streaming_detected'

InDomStrategy == det_pc \in {"dom_fallback", "dom_polling"}

\* The fallback of the network-activity strategy, when a stream is taken as
\* started only by a relevant response observed at most `limit` ticks after
\* the start of the detection.
FallbackToDom(limit) ==
    /\ StreamStarts => (det_pc = "awaiting_stream_start" /\ now' - start_time <= limit)
    /\ det_pc' = "streaming" => _streaming_detected'
    /\ (det_pc = "awaiting_stream_start" /\ det_pc' = "dom_fallback") =>
          /\ ~_streaming_detected
          /\ now - start_time > START_TIMEOUT
          /\ listeners' = 0
    /\ (det_pc = "awaiting_stream_start" /\ ~_streaming_detected
          /\ now - start_time > START_TIMEOUT) =>
          (det_pc' = "dom_fallback" /\ det_exc' = "")
    /\ InDomStrategy => det_pc' \in {"dom_fallback", "dom_polling", "returned", "raised"}
    /\ dom_runs' <= 1
    /\ det_pc' = "dom_polling" => dom_runs' = 1
    /\ dom_runs' = 1 =>
          /\ ~_streaming_detected'
          /\ det_pc' \in {"dom_polling", "returned", "raised"}
          /\ det_pc' = "returned" => det_outcome' \in {"dom_stabilized", "dom_timeout"}
          /\ det_pc' = "raised" => det_exc' = "PlaywrightTimeoutError"
    /\ _streaming_detected' =>
          /\ dom_runs' = 0
          /\ det_pc' \notin {"dom_fallback", "dom_polling"}
          /\ det_outcome' \notin {"dom_stabilized", "dom_timeout"}

\* C21, as stated: when no relevant response is observed within the
\* stream-start timeout of 20 s, the network-activity strategy never enters
\* Streaming, runs the DOM strategy exactly once and returns with its outcome,
\* without raising for the missing stream; when a relevant response is
\* observed before that timeout the DOM strategy is never run.
C21_FallbackWithinTimeout == [][FallbackToDom(START_TIMEOUT)]_vars

\* C21, amended: the stream-start timeout is looked at once before every wait
\* of 100 ms, so a relevant response observed during the wait that was begun at
\* 20 s or just before, up to 100 ms after the 20 s, still starts Streaming;
\* with no relevant response by then the DOM strategy is run exactly once and
\* its outcome returned, and a response observed by then keeps the DOM
\* strategy from being run.
C21_FallbackAtNextCheck == [][FallbackToDom(START_TIMEOUT + 1)]_vars

C21_Witness ==
    /\ det_pc = "returned"
    /\ dom_runs = 1
    /\ det_outcome = "dom_stabilized"
    /\ ~_streaming_detected
    /\ listeners = 0

\* C22: when time advances and the page primitives return, a call of
\* wait_for_response_completion returns in the end under every pattern of
\* responses: relevant responses that keep arriving are cut off by the overall
\* timeout, and with no response at all the stream-start timeout and then the
\* 240 polls of the DOM strategy end the call.
C22_DetectionReturns == (det_pc = "awaiting_stream_start") ~> (det_pc = "returned")

C22_Witness ==
    /\ det_pc = "returned"
    /\ det_outcome = "network_timeout"
    /\ now - start_time > TIMEOUT
    /\ now - _last_network_activity < QUIET_PERIOD

\* the latest poll of the DOM strategy read an empty text
ObservedEmpty == samples # <<>> /\ samples[Len(samples)] = 0

\* C23: the DOM strategy never settles on a poll that reads an empty text; a
\* poll that reads an empty text leaves the stability counter at zero, and
\* after such a poll the strategy returns only as the 240th poll's timeout, so
\* a region that stays empty is never judged complete.
C23_EmptyTextNeverSettles ==
    /\ SettledByDom => ~ObservedEmpty
    /\ ObservedEmpty => stable_checks = 0
    /\ (ObservedEmpty /\ det_pc = "returned") =>
          (det_outcome = "dom_timeout" /\ polls = MAX_POLLS)

C23_Witness ==
    /\ det_pc = "returned"
    /\ det_outcome = "dom_timeout"
    /\ polls = MAX_POLLS
    /\ samples = << 0, 0, 0, 0, 0, 0, 0 >>
    /\ last_len = 0
    /\ stable_checks = 0

RECURSIVE Occurrences(_, _)
\* how often the token occurs in the text
Occurrences(tok, text) ==
    IF text = <<>> THEN 0
    ELSE (IF Head(text) = tok THEN 1 ELSE 0) + Occurrences(tok, Tail(text))

\* the words of the region's markup: its text without the whitespace
SourceWords(markup) ==
    {inner_text(markup)[k] : k \in 1..Len(inner_text(markup))} \ Whitespace

\* C24: a list nested in a list item is rendered only as part of its parent
\* item's "* " line and never as a list block of its own, so a piece of the
\* source text appears at most once in the extractor's output, also when the
\* nested list (or another block nested in a classified block) carries a
\* block class itself.
C24_NestedBlocksRenderedOnce ==
    (ext_pc = "returned" /\ ext_tier = "structured") =>
       \A word \in SourceWords(region) :
          Occurrences(word, inner_text(region)) = 1 => Occurrences(word, ext_result) <= 1

====
